---- MODULE Spec2Model ----
(***************************************************************************)
(* A model of aider/api.py: the JSON-over-HTTP facade in front of one      *)
(* shared Coder ("the engine").  ThreadingHTTPServer runs one thread per   *)
(* connection; each thread constructs an AiderAPIHandler, whose __init__   *)
(* (api.py 66-74) stores the shared coder, then calls                      *)
(* BaseHTTPRequestHandler.__init__, which handles the request (do_POST)    *)
(* before it returns, and only afterwards sets the streaming flags and     *)
(* runs initialize_state().  An exception raised inside do_POST leaves     *)
(* __init__ at once: nothing more is written and the rest of __init__ is   *)
(* skipped.                                                                *)
(*                                                                         *)
(* A step of a thread is one access to the shared objects (coder, state);  *)
(* what a thread does on its own locals between two accesses belongs to    *)
(* the step before.                                                        *)
(***************************************************************************)
EXTENDS Integers, Sequences, FiniteSets, TLC

\* ------------------------------------------------------------------ bounds

\* Requests the clients send in one run of the server: clients that send
\* them at any time (Spec), and a client that waits for each request to end
\* before it sends the next (SeqSpec).
MaxRequests == 2
MaxSeqRequests == 3

\* Requests of the clients that chat, undo and add web pages at any time
\* (RaceSpec).
MaxRaceRequests == 3

\* Messages emitted through the CaptureIO sinks in one run (SinkSpec).
MaxEmissions == 3

\* The server's worker threads that can be alive at the same time.
Threads == {"t1", "t2"}

\* Names of the commits the engine makes, in order.
HashNames == <<"h1", "h2", "h3", "h4", "h5">>

Messages == {"a", "b"}

\* The files named on the command line, and the input history file as the
\* engine finds it at startup.
InitialFiles == {"f1"}
InitialHistory == <<"a", "a">>

\* ------------------------------------------------------------------ values

\* Python's None.
None == "<None>"

\* A variant of `not v` for which only None is falsy.
Falsy_only_None(v) == v = None

\* `not v` for the optional strings the handlers test (None and "" are falsy).
Falsy(v) == v \in {None, ""}

\* A JSON object with no members, and "no handler has returned".
EmptyObj == [k \in {} |-> ""]
NoResult == [k \in {} |-> ""]

\* dict.get(key) and dict.get(key, default) on the decoded payload.
Get(d, k) == IF k \in DOMAIN d THEN d[k] ELSE None
GetOr(d, k, default) == IF k \in DOMAIN d THEN d[k] ELSE default

\* The routes of the table in do_POST whose handler takes (self, data).
DataRoutes ==
    {"/chat", "/add_files", "/add_web_page", "/run_command", "/undo",
     "/get_file_content", "/lint", "/test"}

\* The routes whose handler is declared with `self` only.
NoArgRoutes ==
    {"/get_model", "/clear_chat_history", "/get_chat_history",
     "/get_file_list", "/commit"}

Routes == DataRoutes \cup NoArgRoutes

UnknownPath == "/does_not_exist"

\* The JSON objects the clients post to each path.
PayloadsFor(p) ==
    CASE p = "/chat" ->
            {EmptyObj} \cup {[message |-> m] : m \in Messages \cup {""}}
      [] p = "/add_files" ->
            {EmptyObj} \cup
            {[files |-> fs] : fs \in {<<"f2">>, <<"f2", "f2">>, <<"f1", "f2">>}}
      [] p = "/add_web_page" -> {EmptyObj, [url |-> ""], [url |-> "u"]}
      [] p = "/run_command" -> {EmptyObj, [command |-> ""], [command |-> "c"]}
      [] p = "/undo" ->
            {EmptyObj} \cup {[commit_hash |-> h] : h \in {"", "h1", "h2"}}
      [] p = "/get_file_content" -> {EmptyObj, [file |-> ""], [file |-> "f1"]}
      [] p = "/lint" -> {EmptyObj}
      [] p = "/test" -> {EmptyObj, [test_cmd |-> ""], [test_cmd |-> "t"]}
      [] OTHER -> {EmptyObj}

\* The request body: bytes that json.loads decodes to an object, or bytes it
\* rejects.
Bodies(p) ==
    {[valid |-> TRUE, obj |-> d] : d \in PayloadsFor(p)}
    \cup (IF p \in {"/chat", UnknownPath}
          THEN {[valid |-> FALSE, obj |-> EmptyObj]} ELSE {})

\* ------------------------------------------------------------------- state

VARIABLES
    coder,             \* the one shared engine (module global `coder`)
    io_input_history,  \* the engine's own input history store (coder.io)
    state,             \* the module global `state`: State.keys, the attributes
    scrapers,          \* Scraper instances constructed so far
    self,              \* per thread: the handler instance and its call frames
    nreq,              \* requests accepted so far
    audit,             \* the clients' record of what they asked and were told
    capture            \* the CaptureIO class, its instances and their callers

vars == <<coder, io_input_history, state, scrapers, self, nreq, audit, capture>>

\* The keys initialize_state() passes to State.init, in call order.
InitKeys ==
    <<"messages", "last_aider_commit_hash", "last_undone_commit_hash",
      "recent_msgs_num", "web_content_num", "prompt", "scraper",
      "initial_inchat_files">>

\* A thread with no connection.
Idle ==
    [pc |-> "idle", path |-> None, body |-> [valid |-> TRUE, obj |-> EmptyObj],
     after_clear |-> FALSE, after_commit |-> None, turn |-> None,
     data |-> EmptyObj, result |-> NoResult, wfile |-> <<>>, exc |-> None,
     response |-> <<>>, idx |-> 1, added |-> <<>>,
     ikey |-> 1, val |-> None, ret |-> None, input_history |-> <<>>]

\* The engine as cli_main(return_coder=True) returns it.
NewCoder(files) ==
    [done_messages |-> <<>>, cur_messages |-> <<>>,
     partial_response_content |-> <<>>,
     aider_edited_files |-> {},
     last_aider_commit_hash |-> None,
     last_aider_commit_message |-> None,
     abs_fnames |-> files,
     commits |-> 0,
     undone |-> {},
     yield_stream |-> FALSE, stream |-> TRUE, pretty |-> TRUE]

\* `state = State()`: no key, no attribute.  attrs is the set of attributes the
\* instance has; a field outside attrs holds a placeholder that no code reads.
NewState ==
    [keys |-> {}, attrs |-> {},
     messages |-> <<>>,
     last_aider_commit_hash |-> None,
     last_undone_commit_hash |-> None,
     recent_msgs_num |-> 0,
     web_content_num |-> 0,
     prompt |-> None,
     scraper |-> 0,
     initial_inchat_files |-> {},
     input_history |-> <<>>]

NewAudit ==
    [added |-> [f \in {"f1", "f2"} |-> 0], requested |-> {}, last_clear |-> FALSE,
     last_commit |-> None]

\* The CaptureIO instances: get_coder() makes one at import (line 63) and
\* one more when run_api() calls it again (line 275).
Sinks == {"io1", "io2"}

SinkMessages == {"m1", "m2"}

\* The class attribute `lines = []` (line 14), one list object for the class;
\* own[i] is the instance attribute `lines` of sink i, None while the
\* instance has none.  due[i] are the messages emitted through sink i since
\* its last drain that are to be buffered, got[i] what its last drain
\* returned and owed[i] what that drain had to return; console is what the
\* base InputOutput was handed.
NewCapture ==
    [lines |-> <<>>,
     own |-> [i \in Sinks |-> None],
     due |-> [i \in Sinks |-> <<>>],
     got |-> [i \in Sinks |-> <<>>],
     owed |-> [i \in Sinks |-> <<>>],
     console |-> <<>>]

Init ==
    /\ capture = NewCapture
    /\ coder = NewCoder(InitialFiles)
    /\ io_input_history = InitialHistory
    /\ state = NewState
    /\ scrapers = 0
    /\ self = [t \in Threads |-> Idle]
    /\ nreq = 0
    /\ audit = NewAudit

\* ------------------------------------------------------------ the response

RECURSIVE SetToSeq(_)
\* list(obj) for a set.
SetToSeq(S) ==
    IF S = {} THEN <<>>
    ELSE LET x == CHOOSE x \in S : TRUE IN <<x>> \o SetToSeq(S \ {x})

\* json_serialize, lines 121-124: the default hook turns a set into a list.
json_serialize(obj) == SetToSeq(obj)

\* json.dumps(response, default=json_serialize): the one set a handler returns
\* is the "fnames" of a chat edit record.
json_dumps(response) ==
    [k \in DOMAIN response |->
        IF k = "edits"
        THEN [i \in DOMAIN response[k] |->
                [f \in DOMAIN response[k][i] |->
                    IF f = "fnames" THEN json_serialize(response[k][i][f])
                    ELSE response[k][i][f]]]
        ELSE response[k]]

\* send_error_response(status_code, message): one response, body {"error": message}.
send_error_response(status_code, message) ==
    [status |-> status_code, body |-> [error |-> message]]

\* A variant of do_POST_write that never looks for an "error" member.
do_POST_write_always_200(response) ==
    <<[status |-> 200, body |-> json_dumps(response)]>>

\* do_POST, lines 109-111 and 117-126: what is written for a handler's result.
do_POST_write(response) ==
    IF "error" \in DOMAIN response
    THEN <<send_error_response(400, response.error)>>
    ELSE <<[status |-> 200, body |-> json_dumps(response)]>>

\* ------------------------------------------------------------ the transport

\* Thread t's frame becomes s.
Becomes(t, s) == self' = [self EXCEPT ![t] = s]

\* An exception leaves do_POST, handle() and __init__: the thread ends.
Raised(s, e) == [s EXCEPT !.pc = "done", !.exc = e]

\* The handler returns r to do_POST (line 108), which writes the response
\* (lines 109-126) and returns to __init__.
Returned(s, r) ==
    [s EXCEPT !.result = r, !.wfile = @ \o do_POST_write(r), !.pc = "set_flags"]

\* The server accepts a connection on a new thread, which constructs the
\* handler: self.coder = coder, then super().__init__ reads the request, a
\* POST to path p with body b.
Connect(t, p, b) ==
    /\ self[t].pc = "idle"
    /\ Becomes(t, [Idle EXCEPT !.pc = "do_POST", !.path = p, !.body = b,
                     !.after_clear = audit.last_clear,
                     !.after_commit = audit.last_commit])
    /\ audit' = [audit EXCEPT !.last_clear = (p = "/clear_chat_history"),
                              !.last_commit = None]
    /\ nreq' = nreq + 1
    /\ UNCHANGED <<capture, coder, io_input_history, state, scrapers>>

Accept(t) ==
    \E p \in Routes \cup {UnknownPath} : \E b \in Bodies(p) : Connect(t, p, b)

\* json.loads(post_data.decode('utf-8')) raises on bytes that are no JSON.
json_loads_raises(b) == ~ b.valid
json_loads(b) == b.obj

\* The entry label of the handler the table maps a path to.
HandlerOf(p) ==
    CASE p = "/chat" -> "handle_chat"
      [] p = "/add_files" -> "handle_add_files"
      [] p = "/add_web_page" -> "handle_add_web_page"
      [] p = "/run_command" -> "handle_run_command"
      [] p = "/undo" -> "handle_undo"
      [] p = "/get_file_content" -> "handle_get_file_content"
      [] p = "/lint" -> "handle_lint"
      [] p = "/test" -> "handle_test"
      [] p = "/get_model" -> "handle_get_model"
      [] p = "/clear_chat_history" -> "handle_clear_chat_history"
      [] p = "/get_chat_history" -> "handle_get_chat_history"
      [] p = "/get_file_list" -> "handle_get_file_list"
      [] p = "/commit" -> "handle_commit"

\* A variant of handlers_get that falls back to a handler for unknown paths.
handlers_get_with_default(p) ==
    IF p \in Routes THEN HandlerOf(p) ELSE "handle_lint"

\* handlers.get(self.path), lines 90-106: the handler, or None.
handlers_get(p) == IF p \in Routes THEN HandlerOf(p) ELSE None

\* The handlers declared as handle_x(self): handler(data) passes one argument
\* too many.
TakesNoData(handler) ==
    handler \in {"handle_get_model", "handle_clear_chat_history",
                 "handle_get_chat_history", "handle_get_file_list",
                 "handle_commit"}

\* do_POST, lines 86-108 and 112-114.
do_POST(t) ==
    /\ self[t].pc = "do_POST"
    /\ LET s == self[t]
           handler == handlers_get(s.path)
       IN  IF json_loads_raises(s.body)
           THEN Becomes(t, Raised(s, "JSONDecodeError"))
           ELSE LET s1 == [s EXCEPT !.data = json_loads(s.body)]
                IN  IF handler = None
                    THEN Becomes(t, [s1 EXCEPT
                            !.wfile = @ \o <<send_error_response(404, <<"Not Found">>)>>,
                            !.pc = "set_flags"])
                    ELSE IF TakesNoData(handler)
                    THEN Becomes(t, Raised(s1, "TypeError"))
                    ELSE Becomes(t, [s1 EXCEPT !.pc = handler])
    /\ UNCHANGED <<capture, coder, io_input_history, state, scrapers, nreq, audit>>

\* ---------------------------------------------------------------- the engine
\* aider.coders.Coder, aider.commands.Commands and aider.scrape.Scraper are not
\* part of api.py; these operators give the behaviour api.py relies on.

Turn(role, content) == [role |-> role, content |-> content]

\* The exception of a collaborator call that fails by raising.
CollaboratorError == "CollaboratorError"

\* run_stream(message), first step of the generator: the user's turn joins
\* the conversation and the per-turn fields are reset.
coder_run_stream_begin(c, message) ==
    [c EXCEPT !.cur_messages = Append(@, Turn("user", <<message>>)),
              !.partial_response_content = <<>>,
              !.aider_edited_files = {}]

\* One fragment of the reply is produced: it is added to the reply the engine
\* assembles, and yielded to the caller.
coder_run_stream_fragment(c, message) ==
    [c EXCEPT !.partial_response_content = Append(@, message)]

\* The reply is complete: the assistant's turn is the assembled reply, the
\* turn's edits are applied (outcome: "none", "edit" without a commit,
\* "commit"), and the finished exchange moves to done_messages.
coder_run_stream_finish(c, outcome) ==
    LET h == HashNames[c.commits + 1]
        msgs == Append(c.cur_messages, Turn("assistant", c.partial_response_content))
        c1 == [c EXCEPT !.done_messages = @ \o msgs, !.cur_messages = <<>>]
    IN  CASE outcome = "none" -> c1
          [] outcome = "edit" -> [c1 EXCEPT !.aider_edited_files = {"f1"}]
          [] outcome = "commit" ->
                [c1 EXCEPT !.aider_edited_files = {"f1"},
                           !.commits = @ + 1,
                           !.last_aider_commit_hash = h,
                           !.last_aider_commit_message = <<"msg", h>>]

\* repo.diff_commits(pretty, h~1, h).
diff_commits(pretty, from, to) == <<"diff", from, to>>

\* commands.cmd_undo(None): the engine reverts its latest commit.
cmd_undo(c) == [c EXCEPT !.undone = @ \cup {c.last_aider_commit_hash}]

\* get_inchat_relative_files() and add_rel_fname(fname).
get_inchat_relative_files(c) == c.abs_fnames
add_rel_fname(c, fname) == [c EXCEPT !.abs_fnames = @ \cup {fname}]

\* ------------------------------------------------------------------ /chat

\* handle_chat, lines 129-133.
handle_chat(t) ==
    /\ self[t].pc = "handle_chat"
    /\ LET s == self[t]
           message == Get(s.data, "message")
       IN  IF Falsy(message)
           THEN /\ Becomes(t, Returned(s, [error |-> <<"No message provided">>]))
                /\ UNCHANGED io_input_history
           ELSE /\ io_input_history' = Append(io_input_history, message)
                /\ Becomes(t, [s EXCEPT !.pc = "run_stream"])
    /\ UNCHANGED <<capture, coder, state, scrapers, nreq, audit>>

\* Lines 134-135: "".join(response_stream) starts the generator...
handle_chat_run_stream(t) ==
    /\ self[t].pc = "run_stream"
    /\ coder' = coder_run_stream_begin(coder, self[t].data.message)
    /\ Becomes(t, [self[t] EXCEPT !.pc = "join"])
    /\ UNCHANGED <<capture, io_input_history, state, scrapers, nreq, audit>>

\* ...takes what it yields...
handle_chat_join(t) ==
    /\ self[t].pc = "join"
    /\ coder' = coder_run_stream_fragment(coder, self[t].data.message)
    /\ Becomes(t, [self[t] EXCEPT !.response = Append(@, self[t].data.message),
                                  !.pc = "stream_end"])
    /\ UNCHANGED <<capture, io_input_history, state, scrapers, nreq, audit>>

\* ...until the generator is exhausted.  The frame notes what the turn did.
handle_chat_stream_end(t) ==
    /\ self[t].pc = "stream_end"
    /\ \/ \E outcome \in {"none", "edit", "commit"} :
            /\ coder' = coder_run_stream_finish(coder, outcome)
            /\ Becomes(t, [self[t] EXCEPT !.pc = "edits", !.turn = outcome])
            /\ audit' = IF outcome = "commit"
                        THEN [audit EXCEPT !.last_commit = coder'.last_aider_commit_hash]
                        ELSE audit
       \/ /\ UNCHANGED <<coder, audit>>
          /\ Becomes(t, Raised(self[t], CollaboratorError))
    /\ UNCHANGED <<capture, io_input_history, state, scrapers, nreq>>

\* Lines 138-152: the edit records built from the engine's fields.
chat_edits(c) ==
    IF c.aider_edited_files # {}
    THEN LET edit == [fnames |-> c.aider_edited_files,
                      commit_hash |-> c.last_aider_commit_hash,
                      commit_message |-> c.last_aider_commit_message]
         IN  IF ~ Falsy(c.last_aider_commit_hash)
             THEN << [fnames |-> edit.fnames,
                      commit_hash |-> edit.commit_hash,
                      commit_message |-> edit.commit_message,
                      diff |-> diff_commits(c.pretty,
                                            <<c.last_aider_commit_hash, "~1">>,
                                            c.last_aider_commit_hash)] >>
             ELSE <<edit>>
    ELSE <<>>

\* handle_chat, lines 137-154.
handle_chat_edits(t) ==
    /\ self[t].pc = "edits"
    /\ Becomes(t, Returned(self[t], [response |-> self[t].response,
                                     edits |-> chat_edits(coder)]))
    /\ UNCHANGED <<capture, coder, io_input_history, state, scrapers, nreq, audit>>

\* -------------------------------------------------------------- /add_files

\* Line 160.
fnames_of(d) == GetOr(d, "files", <<>>)

Range(f) == {f[i] : i \in DOMAIN f}

\* A variant of the test of line 163 that takes every file for untracked.
always_untracked(fname) == TRUE

\* Line 163: `fname not in self.coder.get_inchat_relative_files()`.
untracked(fname) == fname \notin get_inchat_relative_files(coder)

\* handle_add_files, lines 160-163 and 166: the loop head and the test.
handle_add_files(t) ==
    /\ self[t].pc = "handle_add_files"
    /\ LET s == self[t]
           fnames == fnames_of(s.data)
       IN  IF s.idx > Len(fnames)
           THEN /\ Becomes(t, Returned(s, [added |-> s.added]))
                /\ audit' = [audit EXCEPT !.requested = @ \cup Range(fnames)]
           ELSE /\ IF untracked(fnames[s.idx])
                   THEN Becomes(t, [s EXCEPT !.pc = "add_rel_fname"])
                   ELSE Becomes(t, [s EXCEPT !.idx = @ + 1])
                /\ UNCHANGED audit
    /\ UNCHANGED <<capture, coder, io_input_history, state, scrapers, nreq>>

\* Lines 164-165.
handle_add_files_add(t) ==
    /\ self[t].pc = "add_rel_fname"
    /\ LET s == self[t]
           fname == fnames_of(s.data)[s.idx]
       IN  /\ coder' = add_rel_fname(coder, fname)
           /\ Becomes(t, [s EXCEPT !.added = Append(@, fname), !.idx = @ + 1,
                                   !.pc = "handle_add_files"])
           /\ audit' = [audit EXCEPT !.added[fname] = @ + 1]
    /\ UNCHANGED <<capture, io_input_history, state, scrapers, nreq>>

\* ----------------------------------------------------------- /add_web_page

\* handle_add_web_page, lines 169-173.  Reading state.scraper raises
\* AttributeError while the instance has no such attribute.
handle_add_web_page(t) ==
    /\ self[t].pc = "handle_add_web_page"
    /\ LET s == self[t]
       IN  IF Falsy(Get(s.data, "url"))
           THEN Becomes(t, Returned(s, [error |-> <<"No URL provided">>]))
           ELSE IF "scraper" \notin state.attrs
           THEN Becomes(t, Raised(s, "AttributeError"))
           ELSE Becomes(t, [s EXCEPT !.pc = IF state.scraper = 0
                                            THEN "new_scraper" ELSE "scrape"])
    /\ UNCHANGED <<capture, coder, io_input_history, state, scrapers, nreq, audit>>

\* Line 174: state.scraper = Scraper(print_error=lambda x: None).
handle_add_web_page_new(t) ==
    /\ self[t].pc = "new_scraper"
    /\ scrapers' = scrapers + 1
    /\ state' = [state EXCEPT !.scraper = scrapers + 1,
                              !.attrs = @ \cup {"scraper"}]
    /\ Becomes(t, [self[t] EXCEPT !.pc = "scrape"])
    /\ UNCHANGED <<capture, coder, io_input_history, nreq, audit>>

\* Lines 176-181: the page has text, or scrape() returns nothing, or raises.
handle_add_web_page_scrape(t) ==
    /\ self[t].pc = "scrape"
    /\ LET s == self[t]
       IN  \/ \E content \in {"", "page"} :
                IF content # ""
                THEN Becomes(t, Returned(s, [content |-> <<s.data.url, "\n\n", content>>]))
                ELSE Becomes(t, Returned(s,
                        [error |-> <<"No web content found for", s.data.url>>]))
           \/ Becomes(t, Raised(s, CollaboratorError))
    /\ UNCHANGED <<capture, coder, io_input_history, state, scrapers, nreq, audit>>

\* ------------------------------------------------------------ /run_command

\* handle_run_command, lines 189-198: subprocess.run(..., check=True) returns,
\* or raises CalledProcessError on a non-zero exit status, or raises another
\* exception (the output is not text), which line 197 does not catch.
handle_run_command(t) ==
    /\ self[t].pc = "handle_run_command"
    /\ LET s == self[t]
       IN  IF Falsy(Get(s.data, "command"))
           THEN Becomes(t, Returned(s, [error |-> <<"No command provided">>]))
           ELSE \/ \E returncode \in {0, 1} :
                    IF returncode = 0
                    THEN Becomes(t, Returned(s, [output |-> <<"stdout">>]))
                    ELSE Becomes(t, Returned(s,
                            [error |-> <<"CalledProcessError", s.data.command>>,
                             output |-> <<"stdout">>]))
                \/ Becomes(t, Raised(s, CollaboratorError))
    /\ UNCHANGED <<capture, coder, io_input_history, state, scrapers, nreq, audit>>

\* ------------------------------------------------------------------- /undo

\* Lines 205-206: the supplied hash is the latest for the process state and
\* for the engine.
is_latest_commit(commit_hash) ==
    ~ (state.last_aider_commit_hash # commit_hash
       \/ coder.last_aider_commit_hash # commit_hash)

\* handle_undo, lines 201-207.  Reading state.last_aider_commit_hash raises
\* AttributeError while the instance has no such attribute.
handle_undo(t) ==
    /\ self[t].pc = "handle_undo"
    /\ LET s == self[t]
           commit_hash == Get(s.data, "commit_hash")
       IN  IF Falsy(commit_hash)
           THEN Becomes(t, Returned(s, [error |-> <<"No commit hash provided">>]))
           ELSE IF "last_aider_commit_hash" \notin state.attrs
           THEN Becomes(t, Raised(s, "AttributeError"))
           ELSE IF ~ is_latest_commit(commit_hash)
           THEN Becomes(t, Returned(s,
                   [error |-> <<"Commit", commit_hash, "is not the latest commit.">>]))
           ELSE Becomes(t, [s EXCEPT !.pc = "cmd_undo"])
    /\ UNCHANGED <<capture, coder, io_input_history, state, scrapers, nreq, audit>>

\* Line 209: the engine reverts the commit, or raises.
handle_undo_cmd_undo(t) ==
    /\ self[t].pc = "cmd_undo"
    /\ \/ /\ coder' = cmd_undo(coder)
          /\ Becomes(t, [self[t] EXCEPT !.pc = "undone"])
       \/ /\ UNCHANGED coder
          /\ Becomes(t, Raised(self[t], CollaboratorError))
    /\ UNCHANGED <<capture, io_input_history, state, scrapers, nreq, audit>>

\* Lines 210-212.
handle_undo_record(t) ==
    /\ self[t].pc = "undone"
    /\ state' = [state EXCEPT
                    !.last_undone_commit_hash = self[t].data.commit_hash,
                    !.attrs = @ \cup {"last_undone_commit_hash"}]
    /\ Becomes(t, Returned(self[t], [message |-> <<"Undo successful">>,
                                     reply |-> <<None>>]))
    /\ UNCHANGED <<capture, coder, io_input_history, scrapers, nreq, audit>>

\* ------------------------------------------- /get_file_content, /lint, /test

\* handle_get_file_content, lines 221-228: read_text gives the text or None,
\* or raises.
handle_get_file_content(t) ==
    /\ self[t].pc = "handle_get_file_content"
    /\ LET s == self[t]
       IN  IF Falsy(Get(s.data, "file"))
           THEN Becomes(t, Returned(s, [error |-> <<"No file name provided">>]))
           ELSE \/ \E content \in {None, "text"} :
                    IF content = None
                    THEN Becomes(t, Returned(s,
                            [error |-> <<"Unable to read file", s.data.file>>]))
                    ELSE Becomes(t, Returned(s, [content |-> <<content>>]))
                \/ Becomes(t, Raised(s, CollaboratorError))
    /\ UNCHANGED <<capture, coder, io_input_history, state, scrapers, nreq, audit>>

\* handle_lint, lines 237-239: cmd_lint gives its result, or raises.
handle_lint(t) ==
    /\ self[t].pc = "handle_lint"
    /\ \/ Becomes(t, Returned(self[t], [result |-> <<"lint", fnames_of(self[t].data)>>]))
       \/ Becomes(t, Raised(self[t], CollaboratorError))
    /\ UNCHANGED <<capture, coder, io_input_history, state, scrapers, nreq, audit>>

\* handle_test, lines 242-246: cmd_test gives None, a text, or a set that
\* line 246 turns into a list, or raises.
handle_test(t) ==
    /\ self[t].pc = "handle_test"
    /\ LET s == self[t]
       IN  IF Falsy(Get(s.data, "test_cmd"))
           THEN Becomes(t, Returned(s, [error |-> <<"No test command provided">>]))
           ELSE \/ \E test_errors \in {<<None>>, <<"errors">>} :
                    Becomes(t, Returned(s, [errors |-> test_errors]))
                \/ \E test_errors \in {{"e1"}} :
                    Becomes(t, Returned(s, [errors |-> SetToSeq(test_errors)]))
                \/ Becomes(t, Raised(s, CollaboratorError))
    /\ UNCHANGED <<capture, coder, io_input_history, state, scrapers, nreq, audit>>

\* -------------------------------------------- __init__ after the request

\* __init__, lines 70-72.  do_POST has returned: its frame is gone, and the
\* response is with the client.
set_flags(t) ==
    /\ self[t].pc = "set_flags"
    /\ coder' = [coder EXCEPT !.yield_stream = TRUE, !.stream = TRUE,
                              !.pretty = FALSE]
    /\ Becomes(t, [Idle EXCEPT !.pc = "initialize_state"])
    /\ UNCHANGED <<capture, io_input_history, state, scrapers, nreq, audit>>

\* announce(), lines 269-271.
announce == <<"announcements">>

\* The argument initialize_state passes for each key, lines 249-260.
InitVal(key) ==
    CASE key = "messages" ->
            <<Turn("info", announce), Turn("assistant", <<"How can I help you?">>)>>
      [] key = "last_aider_commit_hash" -> coder.last_aider_commit_hash
      [] key = "last_undone_commit_hash" -> None
      [] key = "recent_msgs_num" -> 0
      [] key = "web_content_num" -> 0
      [] key = "prompt" -> None
      [] key = "scraper" -> 0
      [] key = "initial_inchat_files" -> get_inchat_relative_files(coder)

\* A variant of the test of line 34 that never finds the key.
State_never_has_key(key) == FALSE

\* State.init, line 34: `key in self.keys`.
State_has_key(key) == key \in state.keys

\* The first call of initialize_state, from call number i on, whose key
\* State.init does not find (line 34); Len(InitKeys) + 1 if it finds them all.
\* Keys are never removed, so the calls that return at line 35 are one step.
NextAbsent(i) ==
    LET absent == {j \in i..Len(InitKeys) : ~ State_has_key(InitKeys[j])}
    IN  IF absent = {} THEN Len(InitKeys) + 1
        ELSE CHOOSE j \in absent : \A k \in absent : j <= k

\* initialize_state, lines 249-262: the calls state.init(key, val) that find
\* their key and return None, up to the first that does not (its argument is
\* evaluated before the call), or up to the test of line 262.
State_init(t) ==
    /\ self[t].pc = "initialize_state"
    /\ LET s == self[t]
           j == NextAbsent(s.ikey)
           s1 == [s EXCEPT !.ikey = j, !.ret = IF j > s.ikey THEN None ELSE @]
       IN  IF j <= Len(InitKeys)
           THEN Becomes(t, [s1 EXCEPT !.val = InitVal(InitKeys[j]), !.pc = "init_add"])
           ELSE Becomes(t, [s1 EXCEPT !.pc = IF "input_history" \notin state.keys
                                             THEN "ih_read" ELSE "done"])
    /\ UNCHANGED <<capture, coder, io_input_history, state, scrapers, nreq, audit>>

\* State.init, line 37: self.keys.add(key).
State_init_add(t) ==
    /\ self[t].pc = "init_add"
    /\ state' = [state EXCEPT !.keys = @ \cup {InitKeys[self[t].ikey]}]
    /\ Becomes(t, [self[t] EXCEPT !.pc = "init_set"])
    /\ UNCHANGED <<capture, coder, io_input_history, scrapers, nreq, audit>>

\* State.init, lines 38-39: setattr(self, key, val); return True.
State_init_set(t) ==
    /\ self[t].pc = "init_set"
    /\ LET s == self[t]
           key == InitKeys[s.ikey]
       IN  /\ state' = [state EXCEPT ![key] = s.val, !.attrs = @ \cup {key}]
           /\ Becomes(t, [s EXCEPT !.ikey = @ + 1, !.val = None, !.ret = "True",
                                   !.pc = "initialize_state"])
    /\ UNCHANGED <<capture, coder, io_input_history, scrapers, nreq, audit>>

RECURSIVE Dedup(_, _)
\* Line 265: keep the first occurrence of each entry, in order.
Dedup(history, seen) ==
    IF history = <<>> THEN <<>>
    ELSE IF Head(history) \in seen THEN Dedup(Tail(history), seen)
    ELSE <<Head(history)>> \o Dedup(Tail(history), seen \cup {Head(history)})

\* initialize_state, lines 263-265.
input_history_read(t) ==
    /\ self[t].pc = "ih_read"
    /\ Becomes(t, [self[t] EXCEPT !.input_history = Dedup(io_input_history, {}),
                                  !.pc = "ih_set"])
    /\ UNCHANGED <<capture, coder, io_input_history, state, scrapers, nreq, audit>>

\* Line 266.
input_history_set(t) ==
    /\ self[t].pc = "ih_set"
    /\ state' = [state EXCEPT !.input_history = self[t].input_history,
                              !.attrs = @ \cup {"input_history"}]
    /\ Becomes(t, [self[t] EXCEPT !.pc = "ih_add"])
    /\ UNCHANGED <<capture, coder, io_input_history, scrapers, nreq, audit>>

\* Line 267.
input_history_add(t) ==
    /\ self[t].pc = "ih_add"
    /\ state' = [state EXCEPT !.keys = @ \cup {"input_history"}]
    /\ Becomes(t, [self[t] EXCEPT !.pc = "done"])
    /\ UNCHANGED <<capture, coder, io_input_history, scrapers, nreq, audit>>

\* The handler object is gone; the thread ends and the connection closes.
Finish(t) ==
    /\ self[t].pc = "done"
    /\ Becomes(t, Idle)
    /\ UNCHANGED <<capture, coder, io_input_history, state, scrapers, nreq, audit>>

\* ----------------------------------------------------------- specification

Step(t) ==
    \/ do_POST(t)
    \/ handle_chat(t)
    \/ handle_chat_run_stream(t)
    \/ handle_chat_join(t)
    \/ handle_chat_stream_end(t)
    \/ handle_chat_edits(t)
    \/ handle_add_files(t)
    \/ handle_add_files_add(t)
    \/ handle_add_web_page(t)
    \/ handle_add_web_page_new(t)
    \/ handle_add_web_page_scrape(t)
    \/ handle_run_command(t)
    \/ handle_undo(t)
    \/ handle_undo_cmd_undo(t)
    \/ handle_undo_record(t)
    \/ handle_get_file_content(t)
    \/ handle_lint(t)
    \/ handle_test(t)
    \/ set_flags(t)
    \/ State_init(t)
    \/ State_init_add(t)
    \/ State_init_set(t)
    \/ input_history_read(t)
    \/ input_history_set(t)
    \/ input_history_add(t)
    \/ Finish(t)

\* ThreadingHTTPServer: a thread per connection, running as the scheduler
\* pleases.
AcceptAny(t) ==
    /\ nreq < MaxRequests
    /\ Accept(t)

Next == \E t \in Threads : AcceptAny(t) \/ Step(t)

Spec == Init /\ [][Next]_vars

\* A client that waits for the end of one request before it sends the next.
AcceptSeq(t) ==
    /\ nreq < MaxSeqRequests
    /\ \A u \in Threads : self[u].pc = "idle"
    /\ Accept(t)

NextSeq == \E t \in Threads : AcceptSeq(t) \/ Step(t)

SeqSpec == Init /\ [][NextSeq]_vars

\* Clients that send chat, undo and add_web_page requests at any time.
RaceRequests ==
    {[path |-> "/chat", obj |-> [message |-> "b"]],
     [path |-> "/undo", obj |-> [commit_hash |-> "h1"]],
     [path |-> "/add_web_page", obj |-> [url |-> "u"]]}

AcceptRace(t) ==
    /\ nreq < MaxRaceRequests
    /\ \E r \in RaceRequests :
            Connect(t, r.path, [valid |-> TRUE, obj |-> r.obj])

RaceStep(t) ==
    \/ do_POST(t)
    \/ handle_chat(t)
    \/ handle_chat_run_stream(t)
    \/ handle_chat_join(t)
    \/ handle_chat_stream_end(t)
    \/ handle_chat_edits(t)
    \/ handle_add_web_page(t)
    \/ handle_add_web_page_new(t)
    \/ handle_add_web_page_scrape(t)
    \/ handle_undo(t)
    \/ handle_undo_cmd_undo(t)
    \/ handle_undo_record(t)
    \/ set_flags(t)
    \/ State_init(t)
    \/ State_init_add(t)
    \/ State_init_set(t)
    \/ input_history_read(t)
    \/ input_history_set(t)
    \/ input_history_add(t)
    \/ Finish(t)

NextRace == \E t \in Threads : AcceptRace(t) \/ RaceStep(t)

RaceSpec == Init /\ [][NextRace]_vars

\* ---------------------------------------------------------------- CaptureIO

\* self.lines: the instance attribute if the instance has one, else the
\* attribute of the class.
self_lines(c, i) == IF c.own[i] = None THEN c.lines ELSE c.own[i]

\* self.lines.append(msg), lines 18 and 22: the list object is changed in
\* place, be it the instance's own or the one of the class.
lines_append(c, i, msg) ==
    IF c.own[i] = None
    THEN [c EXCEPT !.lines = Append(@, msg)]
    ELSE [c EXCEPT !.own[i] = Append(@, msg)]

\* tool_output(msg, log_only), lines 16-19.
tool_output(i, msg, log_only) ==
    /\ Len(capture.console) < MaxEmissions
    /\ LET c == IF ~ log_only THEN lines_append(capture, i, msg) ELSE capture
       IN  capture' = [c EXCEPT !.console = Append(@, msg),
                                !.due[i] = IF ~ log_only THEN Append(@, msg) ELSE @]
    /\ UNCHANGED <<coder, io_input_history, state, scrapers, self, nreq, audit>>

\* tool_error(msg), lines 21-23.
tool_error(i, msg) ==
    /\ Len(capture.console) < MaxEmissions
    /\ capture' = [lines_append(capture, i, msg) EXCEPT
                        !.console = Append(@, msg),
                        !.due[i] = Append(@, msg)]
    /\ UNCHANGED <<coder, io_input_history, state, scrapers, self, nreq, audit>>

\* get_captured_lines(), lines 25-28: the list self.lines names is returned
\* as it is, and the instance gets a new empty list of its own.
get_captured_lines(i) ==
    /\ capture' = [capture EXCEPT !.got[i] = self_lines(capture, i),
                                  !.owed[i] = capture.due[i],
                                  !.own[i] = <<>>,
                                  !.due[i] = <<>>]
    /\ UNCHANGED <<coder, io_input_history, state, scrapers, self, nreq, audit>>

\* The engine's commands emit through the sinks, and a caller drains them.
NextSink ==
    \E i \in Sinks :
        \/ \E msg \in SinkMessages : \E log_only \in BOOLEAN :
                tool_output(i, msg, log_only)
        \/ \E msg \in SinkMessages : tool_error(i, msg)
        \/ get_captured_lines(i)

SinkSpec == Init /\ [][NextSink]_vars

\* ------------------------------------------------------------------ claims

\* The request of thread t has been answered or has failed.
Ended(s) == s.pc \in {"set_flags", "done"}

\* The conversation get_chat_history would return (line 215).
History == coder.done_messages \o coder.cur_messages

ChatBody == {"run_stream", "join", "stream_end", "edits"}

\* One user turn, then the assistant's turn made of that call's own reply.
WellFormedHistory(h) ==
    /\ Len(h) % 2 = 0
    /\ \A i \in 1..Len(h) :
        i % 2 = 1 =>
            /\ h[i].role = "user"
            /\ h[i + 1].role = "assistant"
            /\ h[i + 1].content = h[i].content

\* C1: chat handlers running on separate threads never interleave their
\* mutations of the shared session: once the chat calls have ended, the
\* history holds, per completed call, its user turn followed by the assistant
\* turn made of that call's reply alone.
C1_ChatCallsDoNotInterleave ==
    (\A t \in Threads : self[t].pc \notin ChatBody) => WellFormedHistory(History)

NotLatest(h) == <<"Commit", h, "is not the latest commit.">>

\* C2: an undo request with a supplied hash h reaches the engine's undo, and
\* reports success, only if h is the latest commit for the process state and
\* for the engine; for any other h it ends with the error that names h as not
\* the latest commit.
C2_UndoOnlyLatestCommit ==
    \A t \in Threads :
        LET s == self[t]
            h == Get(s.data, "commit_hash")
        IN  (s.path = "/undo" /\ ~ Falsy(h)) =>
            /\ s.pc \in {"cmd_undo", "undone"} =>
                    (state.last_aider_commit_hash = h
                     /\ coder.last_aider_commit_hash = h)
            /\ Ended(s) =>
                    IF "message" \in DOMAIN s.result
                    THEN /\ state.last_aider_commit_hash = h
                         /\ coder.last_aider_commit_hash = h
                         /\ state.last_undone_commit_hash = h
                         /\ h \in coder.undone
                    ELSE /\ s.exc = None
                         /\ DOMAIN s.result = {"error"}
                         /\ s.result.error = NotLatest(h)

\* C3: a get_chat_history request that follows a clear_chat_history request,
\* with no request in between, is answered 200 with the empty history.
C3_ClearThenGetIsEmpty ==
    \A t \in Threads :
        LET s == self[t]
        IN  (s.path = "/get_chat_history" /\ s.after_clear /\ Ended(s)) =>
                /\ s.exc = None
                /\ Len(s.wfile) = 1
                /\ s.wfile[1].status = 200
                /\ s.wfile[1].body = [history |-> <<>>]

AddFilesBody == {"handle_add_files", "add_rel_fname"}

\* C4: over any sequence of add_files requests, a file name is reported as
\* added at most once and only if it was not tracked from the start, the
\* tracked set is the initial set plus the names reported, and once the
\* requests have returned it is the initial set united with all names asked.
C4_AddFilesIdempotent ==
    /\ \A f \in DOMAIN audit.added :
        /\ audit.added[f] <= 1
        /\ audit.added[f] = 1 => f \notin InitialFiles
    /\ coder.abs_fnames =
            InitialFiles \cup {f \in DOMAIN audit.added : audit.added[f] = 1}
    /\ (\A t \in Threads : self[t].pc \notin AddFilesBody) =>
            coder.abs_fnames = InitialFiles \cup audit.requested

\* A second add_files request names f2 again and reports nothing as added.
C4_Witness ==
    \E t \in Threads :
        LET s == self[t]
        IN  /\ s.path = "/add_files"
            /\ s.pc = "set_flags"
            /\ "f2" \in Range(fnames_of(s.data))
            /\ s.result = [added |-> <<>>]
            /\ audit.added["f2"] = 1

InitCall == {"initialize_state", "init_add", "init_set"}

\* C5: in a sequential order of calls, State.init stores the value only for a
\* key that has not been initialized and then returns True; a call for an
\* initialized key returns None and changes nothing; no init call changes
\* the value of an initialized key, and no key leaves the key set.
C5_InitFirstWriteWins ==
    [][\A t \in Threads :
        LET s == self[t]
        IN  /\ state.keys \subseteq state'.keys
            /\ (s.pc = "init_set" /\ self'[t] # s) =>
                    /\ InitKeys[s.ikey] \notin state.attrs
                    /\ state'[InitKeys[s.ikey]] = s.val
                    /\ self'[t].ret = "True"
            /\ (s.pc = "initialize_state" /\ self'[t] # s) =>
                    /\ state' = state
                    /\ self'[t].ikey > s.ikey => self'[t].ret = None
            /\ (s.pc \in InitCall /\ self'[t] # s) =>
                    \A k \in state.attrs : state'[k] = state[k]
    ]_vars

\* A later request's init calls all returned None and kept the stored commit
\* hash, although the engine's hash has changed since it was stored.
C5_Witness ==
    \E t \in Threads :
        LET s == self[t]
        IN  /\ s.pc = "done"
            /\ s.exc = None
            /\ s.ikey = Len(InitKeys) + 1
            /\ s.ret = None
            /\ "last_aider_commit_hash" \in state.keys
            /\ state.last_aider_commit_hash # coder.last_aider_commit_hash

\* C6: under any interleaving of threads, exactly one init call per key (and
\* one input_history initialization) performs the initialization: a value is
\* only ever stored for a key that no call has stored before.
C6_ConcurrentInitOnce ==
    [][\A t \in Threads :
        LET s == self[t]
        IN  /\ (s.pc = "init_set" /\ self'[t] # s) =>
                    InitKeys[s.ikey] \notin state.attrs
            /\ (s.pc = "ih_set" /\ self'[t] # s) =>
                    "input_history" \notin state.attrs
    ]_vars

\* The written body decodes to the handler's result: the same members, a set
\* written as a list of its elements.
SameJson(body, r) ==
    /\ DOMAIN body = DOMAIN r
    /\ \A k \in DOMAIN r :
        IF k = "edits"
        THEN /\ Len(body[k]) = Len(r[k])
             /\ \A i \in 1..Len(r[k]) :
                 /\ DOMAIN body[k][i] = DOMAIN r[k][i]
                 /\ \A f \in DOMAIN r[k][i] :
                     IF f = "fnames"
                     THEN /\ Range(body[k][i][f]) = r[k][i][f]
                          /\ Len(body[k][i][f]) = Cardinality(r[k][i][f])
                     ELSE body[k][i][f] = r[k][i][f]
        ELSE body[k] = r[k]

\* C7: when the handler of a registered route returns a result, exactly one
\* response is written: 400 if the result has an "error" member, otherwise
\* 200 with the whole result as its JSON body.
C7_StatusFollowsResult ==
    \A t \in Threads :
        LET s == self[t]
        IN  (s.path \in Routes /\ DOMAIN s.result # {}) =>
                /\ Len(s.wfile) = 1
                /\ IF "error" \in DOMAIN s.result
                   THEN s.wfile[1].status = 400
                   ELSE /\ s.wfile[1].status = 200
                        /\ SameJson(s.wfile[1].body, s.result)

\* A chat turn that edited a file has been answered 200 with its edit record.
C7_Witness ==
    \E t \in Threads :
        LET s == self[t]
        IN  /\ s.path = "/chat"
            /\ "edits" \in DOMAIN s.result
            /\ s.result.edits # <<>>
            /\ Len(s.wfile) = 1
            /\ s.wfile[1].status = 200

NotFound == send_error_response(404, <<"Not Found">>)

\* C8, as claimed: every POST to an unregistered path is answered 404 with
\* {"error": "Not Found"}, no handler runs, and the request changes neither
\* the session nor the process state.
C8_UnknownPathAlways404 ==
    /\ [](\A t \in Threads :
            LET s == self[t]
            IN  s.path = UnknownPath =>
                    /\ s.pc \in {"do_POST", "set_flags", "done"}
                    /\ Ended(s) => (s.wfile = <<NotFound>> /\ s.exc = None))
    /\ [][\A t \in Threads :
            (self[t].path = UnknownPath /\ self'[t] # self[t]) =>
                UNCHANGED <<coder, io_input_history, state, scrapers>>]_vars

\* C8, amended: every POST with a well-formed JSON body to an unregistered
\* path is answered 404 with {"error": "Not Found"}, no handler runs, and
\* do_POST changes neither the session nor the process state.
C8_UnknownPath404 ==
    /\ [](\A t \in Threads :
            LET s == self[t]
            IN  (s.path = UnknownPath /\ s.body.valid) =>
                    /\ s.pc \in {"do_POST", "set_flags"}
                    /\ s.pc = "set_flags" =>
                            /\ s.wfile = <<NotFound>>
                            /\ DOMAIN s.result = {}
                            /\ s.exc = None)
    /\ [][\A t \in Threads :
            (self[t].path = UnknownPath /\ self[t].pc = "do_POST"
             /\ self'[t] # self[t]) =>
                UNCHANGED <<coder, io_input_history, state, scrapers>>]_vars

\* A well-formed request to an unregistered path has been answered 404.
C8_Witness ==
    \E t \in Threads :
        LET s == self[t]
        IN  /\ s.path = UnknownPath
            /\ s.body.valid
            /\ s.pc = "set_flags"
            /\ s.wfile = <<NotFound>>

\* C9: on every registered route, a well-formed JSON object reaches the
\* handler, which returns a mapping, and the request is answered: no such
\* request ends with an exception instead of a response.
C9_EveryRouteResponds ==
    \A t \in Threads :
        LET s == self[t]
        IN  (s.path \in Routes /\ s.body.valid /\ Ended(s)) =>
                /\ s.exc = None
                /\ DOMAIN s.result # {}
                /\ Len(s.wfile) = 1

\* C10: a request whose body is not valid JSON reaches no handler and is
\* answered with a 400-class status and a JSON {"error": message} body.
C10_MalformedJsonIs400 ==
    \A t \in Threads :
        LET s == self[t]
        IN  ~ s.body.valid =>
                /\ s.pc \in {"do_POST", "set_flags", "done"}
                /\ Ended(s) =>
                        /\ Len(s.wfile) = 1
                        /\ s.wfile[1].status \in 400..499
                        /\ DOMAIN s.wfile[1].body = {"error"}

\* The routes whose handler validates a required field, and the field.
Validating ==
    {"/chat", "/add_web_page", "/run_command", "/undo", "/get_file_content",
     "/test"}

RequiredField(p) ==
    CASE p = "/chat" -> "message"
      [] p = "/add_web_page" -> "url"
      [] p = "/run_command" -> "command"
      [] p = "/undo" -> "commit_hash"
      [] p = "/get_file_content" -> "file"
      [] p = "/test" -> "test_cmd"

\* The request of frame s lacks its required field, or has it empty.
LacksRequired(s) ==
    /\ s.path \in Validating
    /\ s.body.valid
    /\ s.body.obj \in {EmptyObj, [f \in {RequiredField(s.path)} |-> ""]}

\* C11, as claimed: a request to chat, add_web_page, run_command, undo,
\* get_file_content or test whose required field is missing or empty returns
\* an error mapping, and the request leaves the engine, the input history,
\* the process state and the scraper untouched.
C11_InvalidRequestTouchesNothing ==
    /\ [](\A t \in Threads :
            LET s == self[t]
            IN  LacksRequired(s) =>
                    /\ s.pc \in {"do_POST", HandlerOf(s.path), "set_flags"}
                    /\ s.pc = "set_flags" => DOMAIN s.result = {"error"})
    /\ [][\A t \in Threads :
            (LacksRequired(self[t]) /\ self'[t] # self[t]) =>
                UNCHANGED <<coder, io_input_history, state, scrapers>>]_vars

\* C11, amended: such a request never goes past the entry of its handler,
\* which returns an error mapping, and from the dispatch to the response the
\* engine, the input history, the process state and the scraper are untouched.
C11_ValidationPrecedesEngine ==
    /\ [](\A t \in Threads :
            LET s == self[t]
            IN  LacksRequired(s) =>
                    /\ s.pc \in {"do_POST", HandlerOf(s.path), "set_flags"}
                    /\ s.pc = "set_flags" =>
                            /\ DOMAIN s.result = {"error"}
                            /\ s.wfile = <<send_error_response(400, s.result.error)>>)
    /\ [][\A t \in Threads :
            (LacksRequired(self[t]) /\ self[t].pc \in {"do_POST", HandlerOf(self[t].path)}
             /\ self'[t] # self[t]) =>
                UNCHANGED <<coder, io_input_history, state, scrapers>>]_vars

\* A chat request with an empty message has been answered with the error,
\* and the input history is as the engine found it.
C11_Witness ==
    \E t \in Threads :
        LET s == self[t]
        IN  /\ s.path = "/chat"
            /\ s.body.obj = [message |-> ""]
            /\ s.pc = "set_flags"
            /\ s.result = [error |-> <<"No message provided">>]
            /\ io_input_history = InitialHistory

\* C12: a chat turn that edits no file returns {"response": text, "edits": []};
\* a turn that edits files returns exactly one edit record with the edited
\* file names, the commit hash and the commit message, and the record has a
\* "diff" if and only if this turn made a commit.
C12_EditRecordOfThisTurn ==
    \A t \in Threads :
        LET s == self[t]
            edits == s.result.edits
        IN  (s.path = "/chat" /\ "edits" \in DOMAIN s.result) =>
                /\ DOMAIN s.result = {"response", "edits"}
                /\ s.result.response = <<s.data.message>>
                /\ s.turn = "none" => edits = <<>>
                /\ s.turn # "none" =>
                        /\ Len(edits) = 1
                        /\ {"fnames", "commit_hash", "commit_message"}
                                \subseteq DOMAIN edits[1]
                        /\ edits[1].fnames = {"f1"}
                        /\ "diff" \in DOMAIN edits[1] <=> s.turn = "commit"

\* C13: the process state's input history is the history found at
\* initialization followed by the chat messages submitted since, each entry
\* kept at its first occurrence only: between requests it is the
\* deduplicated history of the engine's own store, which holds the startup
\* history and every submitted message.
C13_InputHistoryFollowsChats ==
    ((\A t \in Threads : self[t].pc = "idle")
     /\ "input_history" \in state.attrs) =>
        state.input_history = Dedup(io_input_history, {})

\* C14: a run_command request with a command is answered once: when the
\* command exits non-zero, with an error response that carries the error
\* text and the captured stdout; when it exits with zero, with 200 and the
\* captured stdout.
C14_RunCommandKeepsOutput ==
    \A t \in Threads :
        LET s == self[t]
        IN  (s.path = "/run_command" /\ ~ LacksRequired(s) /\ Ended(s)
             /\ s.exc = None) =>
                /\ Len(s.wfile) = 1
                /\ IF "error" \in DOMAIN s.result
                   THEN /\ s.wfile[1].status = 400
                        /\ DOMAIN s.wfile[1].body = {"error", "output"}
                        /\ s.wfile[1].body.error = s.result.error
                        /\ s.wfile[1].body.output = <<"stdout">>
                   ELSE /\ s.wfile[1].status = 200
                        /\ s.wfile[1].body = [output |-> <<"stdout">>]

\* C15: whenever a collaborator (the engine's chat turn, undo, lint or test
\* hook, the scraper's fetch, the file read, the shell command) raises during
\* a request, the handler returns an {"error": message} mapping and the
\* request ends with exactly one response.
C15_NoCollaboratorFailureEscapes ==
    \A t \in Threads :
        LET s == self[t]
        IN  (s.exc = CollaboratorError /\ Ended(s)) =>
                /\ DOMAIN s.result = {"error"}
                /\ Len(s.wfile) = 1

\* The thread is inside the handler of its route.
InHandler(s) ==
    s.pc \notin {"idle", "do_POST", "set_flags", "initialize_state", "init_add",
                 "init_set", "ih_read", "ih_set", "ih_add", "done"}

\* Every key of the one-time initialization is in the key set and has its
\* attribute, and the streaming flags are set.
Initialized ==
    /\ Range(InitKeys) \cup {"input_history"} \subseteq state.keys
    /\ Range(InitKeys) \cup {"input_history"} \subseteq state.attrs
    /\ coder.yield_stream /\ coder.stream /\ ~ coder.pretty

\* C16: for every request, the first of the process included, the one-time
\* initialization and the setting of the streaming flags are complete before
\* the handler starts.
C16_InitializedBeforeHandler ==
    \A t \in Threads : InHandler(self[t]) => Initialized

\* C17: across every sequence and interleaving of add_web_page requests the
\* page scraper is constructed at most once.
C17_ScraperConstructedOnce == scrapers <= 1

\* C18: a chat request running at the same time as an undo request cannot
\* interleave with it: the commit that an accepted undo(h) makes the engine
\* revert is the commit h named in the request.
C18_UndoRevertsNamedCommit ==
    [][\A t \in Threads :
        (self[t].pc = "cmd_undo" /\ self'[t].pc = "undone") =>
            coder'.undone = coder.undone \cup {self[t].data.commit_hash}
    ]_vars

\* C19: an undo request that supplies the hash h of the commit made by the
\* chat turn of the request just before it is accepted, not rejected as
\* stale: unless the engine's undo itself fails, it reports success and the
\* process state records h as the last undone commit.
C19_UndoAfterChatCommitAccepted ==
    \A t \in Threads :
        LET s == self[t]
            h == s.after_commit
        IN  (s.path = "/undo" /\ h # None /\ s.body.obj = [commit_hash |-> h]
             /\ Ended(s) /\ s.exc # CollaboratorError) =>
                /\ s.exc = None
                /\ "message" \in DOMAIN s.result
                /\ state.last_undone_commit_hash = h

\* C20: the buffer of a sink holds, in emission order, exactly the error
\* messages and the informational messages that are not log-only emitted
\* through that same sink since its previous drain, and each drain returns
\* exactly those messages and leaves the buffer empty.
C20_SinkBuffersItsOwnMessages ==
    \A i \in Sinks :
        /\ self_lines(capture, i) = capture.due[i]
        /\ capture.got[i] = capture.owed[i]

====
